---- MODULE Spec2Model ----
(***************************************************************************)
(* ResumeGuide: the Agent adapter of utils.py (credential discovery,       *)
(* shared session service, chat / clear_memory) and the Streamlit shell of *)
(* app.py (profile tools, transcripts, cached agents, reset).              *)
(*                                                                         *)
(* External collaborators (the file system, the ADK session service, the   *)
(* ADK runner and the hosted model) are modelled by their observable       *)
(* outcomes: every call to them may return or raise.                       *)
(***************************************************************************)
EXTENDS Integers, Sequences, FiniteSets, TLC

VARIABLES
    files,            \* glob.glob("*.json"): the directory listing, in glob order
    environ,          \* names of the os.environ entries the process has written
    session_service,  \* Agent._session_service: 0 is None, else the instance number
    services_made,    \* number of InMemorySessionService objects constructed so far
    store,            \* sessions held by the session services: [svc, key]
    history,          \* the sessions of store that hold conversation events
    agents,           \* live Agent objects by name (app.py: the st.cache_resource entry)
    student_data,     \* st.session_state.student_data
    chat_history,     \* st.session_state.chat_history
    call,             \* the chat() invocation in progress, or the last one finished
    tool_log,         \* arguments of the save_* calls since student_data was last emptied
    clicks,           \* number of chat inputs handled by the app so far
    suspended,        \* the chat() invocation of another thread, between two of its steps
    observed          \* what the session service was asked, per session: not Python state

vars == <<files, environ, session_service, services_made, store, history,
          agents, student_data, chat_history, call, tool_log, clicks,
          suspended, observed>>

(***************************************************************************)
(* Bounds of the model.                                                    *)
(***************************************************************************)
MaxFiles == 2        \* *.json files in the working directory
MaxAddr == 3         \* distinct values id(self) can take
MaxClicks == 2       \* chat inputs explored in the app
MaxTurnEvents == 1   \* events the runner yields per turn in the app and adapter runs
MaxEvents == 2       \* events the runner yields per turn in the event-stream runs
MaxToolCalls == 4    \* direct tool calls explored in the tool runs

Names == {"ProfileBot", "ReviewerBot", "CoachBot"}
Tabs == {"profile", "reviewer", "coach"}

TabAgent(tab) ==
    CASE tab = "profile" -> "ProfileBot"
      [] tab = "reviewer" -> "ReviewerBot"
      [] tab = "coach" -> "CoachBot"

(***************************************************************************)
(* utils.py: credential discovery.                                         *)
(***************************************************************************)
\* What one *.json file can hold, as far as _get_project_id can tell.
FileKinds == {"unreadable",     \* open() or json.load() raises
              "not_object",     \* parses, but data.get raises (a list, a number)
              "other_type",     \* an object whose "type" is not "service_account"
              "sa_no_pid",      \* service account, no "project_id" field
              "sa_empty_pid",   \* service account, "project_id" is "" or null
              "sa_pid"}         \* service account, "project_id" a non-empty string

IsServiceAccount(kind) ==
    kind \in {"sa_no_pid", "sa_empty_pid", "sa_pid"}

\* data.get("project_id") for a service-account file.
ProjectIdOf(kind) ==
    CASE kind = "sa_pid" -> "str"
      [] kind = "sa_empty_pid" -> "empty"
      [] OTHER -> "None"

\* _get_project_id: the first file that is a service account decides.
RECURSIVE get_project_id(_, _)
get_project_id(fs, i) ==
    IF i > Len(fs) THEN [project_id |-> "None", sa_file |-> 0]
    ELSE IF IsServiceAccount(fs[i])
         THEN [project_id |-> ProjectIdOf(fs[i]), sa_file |-> i]
         ELSE get_project_id(fs, i + 1)

\* Line 37: "if not project_id" lets a non-empty string through.
Truthy(project_id) == project_id = "str"

\* _setup_vertex_auth: the outcome and the environment it leaves.
setup_vertex_auth(fs, env) ==
    LET found == get_project_id(fs, 1) IN
    IF ~Truthy(found.project_id)
    THEN [ok |-> FALSE, error |-> "ValueError", env |-> env]
    ELSE [ok |-> TRUE, error |-> "",
          env |-> env \cup {"GOOGLE_APPLICATION_CREDENTIALS",
                            "GOOGLE_GENAI_USE_VERTEXAI",
                            "GOOGLE_CLOUD_PROJECT",
                            "GOOGLE_CLOUD_LOCATION"}]

(***************************************************************************)
(* utils.py: the Agent object.                                             *)
(***************************************************************************)
user_id(name) == <<"user", name>>

\* f"session_{name}_{id(self)}"
initial_session_id(name, id) == <<"session", name, id, "">>

\* clear_memory: f"session_{name}_{id(self)}_{hash(str(id(self)))}", a function
\* of the name and the identity alone.
clear_memory(a) ==
    [a EXCEPT !.session_id = <<"session", a.name, a.id, "hash">>,
              !.session_created = FALSE,
              !.fresh = TRUE]

\* A variant that builds a session service for every Agent.
new_session_service_always(current, made) == made + 1

\* Agent.__init__, lines 85-87: the class-level singleton.
obtain_session_service(current, made) ==
    IF current = 0 THEN made + 1 ELSE current

\* The (user_id, session_id) pair _ensure_session_async passes to the session service.
ensure_key(a) == <<user_id(a.name), a.session_id>>

\* A variant in which the runner keeps the identifier fixed at construction.
run_key_initial(a) == <<user_id(a.name), initial_session_id(a.name, a.id)>>

\* The (user_id, session_id) pair _run_agent passes to runner.run_async.
run_key(a) == <<user_id(a.name), a.session_id>>

NoKey == <<>>

\* A freshly constructed Agent. used, last_key and fresh record which sessions
\* its chats have addressed; they are not fields of the Python object.
new_agent(name, id, svc) ==
    [name |-> name,
     id |-> id,
     session_id |-> initial_session_id(name, id),
     session_created |-> FALSE,
     runner_service |-> svc,
     used |-> {},
     last_key |-> NoKey,
     fresh |-> FALSE]

(***************************************************************************)
(* app.py: the profile tools.  Strings that are split are sequences of     *)
(* one-character strings.                                                  *)
(***************************************************************************)
EmptyProfile == [keys |-> {}, branch |-> "", skills |-> <<>>, projects |-> <<>>]

\* Index of the first "," of s, or 0.
RECURSIVE find_comma(_, _)
find_comma(s, i) ==
    IF i > Len(s) THEN 0
    ELSE IF s[i] = "," THEN i ELSE find_comma(s, i + 1)

\* str.split(','): always at least one piece, empty pieces kept.
RECURSIVE split(_)
split(s) ==
    LET i == find_comma(s, 1) IN
    IF i = 0 THEN <<s>>
    ELSE <<SubSeq(s, 1, i - 1)>> \o split(SubSeq(s, i + 1, Len(s)))

\* str.strip(): leading and trailing blanks removed.
RECURSIVE strip(_)
strip(s) ==
    IF s = <<>> THEN s
    ELSE IF Head(s) = " " THEN strip(Tail(s))
    ELSE IF s[Len(s)] = " " THEN strip(SubSeq(s, 1, Len(s) - 1))
    ELSE s

skills_list(skills) ==
    LET pieces == split(skills) IN [i \in 1..Len(pieces) |-> strip(pieces[i])]

save_branch(d, branch) ==
    [d EXCEPT !.keys = @ \cup {"branch"}, !.branch = branch]

\* A variant that merges the new skills into the saved ones.
save_skills_merging(d, skills) ==
    [d EXCEPT !.keys = @ \cup {"skills"}, !.skills = @ \o skills_list(skills)]

save_skills(d, skills) ==
    [d EXCEPT !.keys = @ \cup {"skills"}, !.skills = skills_list(skills)]

save_project(d, title, description) ==
    [d EXCEPT !.keys = @ \cup {"projects"},
              !.projects = Append(@, [title |-> title, desc |-> description])]

SaveTools == {"save_branch", "save_skills", "save_project"}

\* The tools each agent is built with in get_agents.
AgentTools(name) ==
    CASE name = "ProfileBot" ->
             {"save_branch", "save_skills", "save_project", "get_profile"}
      [] name = "ReviewerBot" -> {"check_skill_demand", "analyze_project"}
      [] name = "CoachBot" -> {"get_industry_trends", "suggest_certifications"}

\* The effect on student_data of one tool call fc = [tool, args].
run_tool(d, fc) ==
    CASE fc.tool = "save_branch" -> save_branch(d, fc.args[1])
      [] fc.tool = "save_skills" -> save_skills(d, fc.args[1])
      [] fc.tool = "save_project" -> save_project(d, fc.args[1], fc.args[2])
      [] OTHER -> d

log_tool(log, fc) ==
    IF fc.tool \in SaveTools THEN Append(log, fc) ELSE log

(***************************************************************************)
(* Events of the runner's stream, as _run_agent reads them.                *)
(***************************************************************************)
Placeholder == "No response generated."

TextPart(t) == [function_call |-> FALSE, tool |-> "", args |-> <<>>, text |-> t]
CallPart(tool, args, t) ==
    [function_call |-> TRUE, tool |-> tool, args |-> args, text |-> t]

NoContent == [content |-> FALSE, parts |-> <<>>]
Event(parts) == [content |-> TRUE, parts |-> parts]

\* A variant that concatenates the text fragments.
RECURSIVE read_parts_concatenating(_, _)
read_parts_concatenating(final_response, parts) ==
    IF parts = <<>> THEN final_response
    ELSE LET part == Head(parts) IN
         read_parts_concatenating(
             IF part.function_call THEN final_response
             ELSE IF part.text # "" THEN final_response \o part.text
             ELSE final_response,
             Tail(parts))

\* Lines 200-207: the loop over event.content.parts.
RECURSIVE read_parts(_, _)
read_parts(final_response, parts) ==
    IF parts = <<>> THEN final_response
    ELSE LET part == Head(parts) IN
         read_parts(
             IF part.function_call THEN final_response
             ELSE IF part.text # "" THEN part.text
             ELSE final_response,
             Tail(parts))

\* Lines 198-207: one iteration of the async for.
read_event(final_response, event) ==
    IF event.content THEN read_parts(final_response, event.parts)
    ELSE final_response

\* Line 216.
response_of(final_response) ==
    IF final_response # "" THEN final_response ELSE Placeholder

\* The tools the runner executes for the function calls of one event.
RECURSIVE run_tools(_, _)
run_tools(d, parts) ==
    IF parts = <<>> THEN d
    ELSE run_tools(IF Head(parts).function_call THEN run_tool(d, Head(parts)) ELSE d,
                   Tail(parts))

RECURSIVE log_tools(_, _)
log_tools(log, parts) ==
    IF parts = <<>> THEN log
    ELSE log_tools(IF Head(parts).function_call THEN log_tool(log, Head(parts)) ELSE log,
                   Tail(parts))

(***************************************************************************)
(* Agent.chat and Agent._run_agent, one step per external call.            *)
(***************************************************************************)
ExcTypes == {"RuntimeError", "Exception"}   \* RuntimeError, and every other Exception

NoExc == [type |-> "", site |-> ""]

\* call.pc: "idle" before any call; "ensure", "create", "handler_create",
\* "run_async", "events" inside _run_agent; "returned" and "raised" once chat is over.
\* n_get, n_create, n_submit, failed, addressed, last_addr, after_clear, prior,
\* prev and stream record what the call did; they are not Python state.
IdleCall ==
    [pc |-> "idle", name |-> "", via |-> "", tab |-> "", in_try |-> FALSE,
     final_response |-> "", n_events |-> 0, value |-> "", exc |-> NoExc,
     n_get |-> 0, n_create |-> 0, n_submit |-> 0, failed |-> {},
     addressed |-> {}, last_addr |-> NoKey,
     after_clear |-> FALSE, prior |-> {}, prev |-> NoKey, stream |-> <<>>]

AtRest == call.pc \in {"idle", "returned", "raised", "reset", "cleared"}

\* chat, lines 155-168: get_event_loop returns (the run is inside the try) or
\* raises RuntimeError (the run is inside the except RuntimeError block).
begin_chat(a, via, tab, loop_ok) ==
    [IdleCall EXCEPT !.pc = "ensure", !.name = a.name, !.via = via, !.tab = tab,
                     !.in_try = loop_ok,
                     !.failed = IF loop_ok THEN {}
                                ELSE {[type |-> "RuntimeError", site |-> "get_event_loop"]},
                     !.after_clear = a.fresh, !.prior = a.used, !.prev = a.last_key]

\* chat, lines 156-178: where an exception raised by _run_agent goes.  Inside the
\* try a RuntimeError is caught and _run_agent is run again on a new loop;
\* anything else, and anything raised by the second run, leaves chat.
propagate(c, type, site) ==
    LET seen == [c EXCEPT !.failed = @ \cup {[type |-> type, site |-> site]}] IN
    IF c.in_try /\ type = "RuntimeError"
    THEN [seen EXCEPT !.pc = "ensure", !.in_try = FALSE, !.final_response = "",
                      !.n_events = 0, !.stream = <<>>]
    ELSE [seen EXCEPT !.pc = "raised", !.exc = [type |-> type, site |-> site]]

\* A variant without the except clause around get_session.
on_lookup_error_reraise(c, type) == propagate(c, type, "get_session")

\* _ensure_session_async, lines 130-136: get_session raised.
on_lookup_error(c, type) ==
    [c EXCEPT !.pc = "handler_create",
              !.failed = @ \cup {[type |-> type, site |-> "get_session"]}]

\* _ensure_session_async, lines 125-136: create_session raised inside the try.
on_create_error(c, type) ==
    [c EXCEPT !.pc = "handler_create",
              !.failed = @ \cup {[type |-> type, site |-> "create_session"]}]

\* What the Agent's chats have addressed, once a call is over.
settle(a, c) ==
    [a EXCEPT !.used = @ \cup {k[2] : k \in c.addressed},
              !.last_key = IF c.last_addr = NoKey THEN @ ELSE c.last_addr,
              !.fresh = IF c.addressed = {} THEN @ ELSE FALSE]

Running(pc) == call.pc = pc /\ call.name \in DOMAIN agents

Self == agents[call.name]

\* What is left of a call once the app's handler is over: its outcome.
outcome(c) ==
    [IdleCall EXCEPT !.pc = c.pc, !.name = c.name, !.via = c.via, !.tab = c.tab,
                     !.value = c.value, !.exc = c.exc]

\* A variant whose except branch appends the error to the transcript.
EndCall_recording_errors(c) ==
    /\ call' = IF c.via = "ui" THEN outcome(c) ELSE c
    /\ agents' = [agents EXCEPT ![c.name] = settle(@, c)]
    /\ chat_history' =
           IF c.via = "ui"
           THEN [chat_history EXCEPT
                    ![c.tab] = Append(@, [role |-> "assistant",
                                          content |-> IF c.pc = "returned"
                                                      THEN c.value ELSE c.exc.type])]
           ELSE chat_history

\* The chat of `call` ends with c: the Agent is settled and, in the app, the
\* assistant entry is appended when chat returned (app.py lines 185-189).
EndCall(c) ==
    /\ call' = IF c.via = "ui" THEN outcome(c) ELSE c
    /\ agents' = [agents EXCEPT ![c.name] = settle(@, c)]
    /\ chat_history' =
           IF c.via = "ui" /\ c.pc = "returned"
           THEN [chat_history EXCEPT
                    ![c.tab] = Append(@, [role |-> "assistant", content |-> c.value])]
           ELSE chat_history

\* The call goes on, or ends, with c.
Continue(c) ==
    IF c.pc \in {"returned", "raised"}
    THEN EndCall(c)
    ELSE call' = c /\ UNCHANGED <<agents, chat_history>>

Address(c, key) ==
    [c EXCEPT !.addressed = @ \cup {key}, !.last_addr = key]

\* The record of the calls the session service has received.  created counts
\* the create_session calls per session, 2 standing for two or more;
\* lookup_failed and create_failed hold the sessions for which get_session,
\* respectively create_session, raised; overlapped holds the sessions addressed
\* by a chat that began while another chat on the same Agent was in progress.
NothingObserved ==
    [created |-> <<>>, lookup_failed |-> {}, create_failed |-> {}, overlapped |-> {}]

times_created(o, session) ==
    IF session \in DOMAIN o.created THEN o.created[session] ELSE 0

see_create(o, session, raised) ==
    LET n == times_created(o, session) IN
    [o EXCEPT !.created = (session :> (IF n < 2 THEN n + 1 ELSE 2)) @@ @,
              !.create_failed = IF raised THEN @ \cup {session} ELSE @]

see_lookup_failure(o, session) ==
    [o EXCEPT !.lookup_failed = @ \cup {session}]

see_overlap(o, session) ==
    [o EXCEPT !.overlapped = @ \cup {session}]

\* The session _ensure_session_async addresses, in the service it calls.
ensure_session(a) == [svc |-> session_service, key |-> ensure_key(a)]

\* Line 115-116: the session is marked created.
EnsureSkip ==
    /\ Running("ensure")
    /\ Self.session_created
    /\ call' = [call EXCEPT !.pc = "run_async"]
    /\ UNCHANGED <<files, environ, session_service, services_made, store, history,
                   agents, student_data, chat_history, tool_log, clicks, suspended, observed>>

\* Lines 119-124: get_session returns the session, or None.
GetSessionReturn ==
    /\ Running("ensure")
    /\ ~Self.session_created
    /\ LET key == ensure_key(Self)
           c == [Address(call, key) EXCEPT !.n_get = @ + 1]
           found == [svc |-> session_service, key |-> key] \in store
       IN /\ call' = [c EXCEPT !.pc = IF found THEN "run_async" ELSE "create"]
          /\ agents' = [agents EXCEPT ![call.name].session_created = found \/ @]
    /\ UNCHANGED <<files, environ, session_service, services_made, store, history,
                   student_data, chat_history, tool_log, clicks, suspended, observed>>

\* Lines 119-123, 130: get_session raises.
GetSessionRaise(types) ==
    /\ Running("ensure")
    /\ ~Self.session_created
    /\ \E type \in types :
          Continue(on_lookup_error(
              [Address(call, ensure_key(Self)) EXCEPT !.n_get = @ + 1], type))
    /\ observed' = see_lookup_failure(observed, ensure_session(Self))
    /\ UNCHANGED <<files, environ, session_service, services_made, store, history,
                   student_data, tool_log, clicks, suspended>>

\* create_session returns: the session is in the service, line 138 marks it.
Created(c) ==
    LET key == ensure_key(Self) IN
    /\ store' = store \cup {[svc |-> session_service, key |-> key]}
    /\ agents' = [agents EXCEPT ![call.name].session_created = TRUE]
    /\ call' = [Address(c, key) EXCEPT !.n_create = @ + 1, !.pc = "run_async"]
    /\ observed' = see_create(observed, ensure_session(Self), FALSE)

\* Lines 125-129: create_session inside the try returns.
CreateReturn ==
    /\ Running("create")
    /\ Created(call)
    /\ UNCHANGED <<files, environ, session_service, services_made, history,
                   student_data, chat_history, tool_log, clicks, suspended>>

\* Lines 125-130: create_session inside the try raises.
CreateRaise(types) ==
    /\ Running("create")
    /\ \E type \in types :
          call' = on_create_error(
              [Address(call, ensure_key(Self)) EXCEPT !.n_create = @ + 1], type)
    /\ observed' = see_create(observed, ensure_session(Self), TRUE)
    /\ UNCHANGED <<files, environ, session_service, services_made, store, history,
                   agents, student_data, chat_history, tool_log, clicks, suspended>>

\* Lines 132-136: create_session inside the except block returns.
HandlerCreateReturn ==
    /\ Running("handler_create")
    /\ Created(call)
    /\ UNCHANGED <<files, environ, session_service, services_made, history,
                   student_data, chat_history, tool_log, clicks, suspended>>

\* Lines 132-136: create_session inside the except block raises.
HandlerCreateRaise(types) ==
    /\ Running("handler_create")
    /\ \E type \in types :
          Continue(propagate(
              [Address(call, ensure_key(Self)) EXCEPT !.n_create = @ + 1],
              type, "handler_create"))
    /\ observed' = see_create(observed, ensure_session(Self), TRUE)
    /\ UNCHANGED <<files, environ, session_service, services_made, store, history,
                   student_data, tool_log, clicks, suspended>>

\* Lines 189-196: runner.run_async is given the message; the runner records it
\* in the session it addresses.
RunAsync ==
    /\ Running("run_async")
    /\ LET key == run_key(Self) IN
       /\ call' = [Address(call, key) EXCEPT !.n_submit = @ + 1, !.pc = "events"]
       /\ history' = history \cup {[svc |-> Self.runner_service, key |-> key]}
    /\ UNCHANGED <<files, environ, session_service, services_made, store,
                   agents, student_data, chat_history, tool_log, clicks, suspended, observed>>

\* Lines 189-214: the runner yields one event.  The runner has executed the
\* tools the event's function calls name before _run_agent reads the event.
RunnerYield(events, max, track) ==
    /\ Running("events")
    /\ call.n_events < max
    /\ \E event \in events :
          /\ call' = [call EXCEPT
                         !.final_response = read_event(@, event),
                         !.n_events = @ + 1,
                         !.stream = IF track THEN Append(@, event) ELSE @]
          /\ student_data' = run_tools(student_data, event.parts)
          /\ tool_log' = IF track THEN log_tools(tool_log, event.parts) ELSE tool_log
    /\ UNCHANGED <<files, environ, session_service, services_made, store, history,
                   agents, chat_history, clicks, suspended, observed>>

\* Lines 189-196: run_async, or the iteration over its events, raises.
RunnerRaise(types) ==
    /\ Running("events")
    /\ \E type \in types : Continue(propagate(call, type, "run_async"))
    /\ UNCHANGED <<files, environ, session_service, services_made, store, history,
                   student_data, tool_log, clicks, suspended, observed>>

\* Lines 216, 169/176: the stream ends; _run_agent and chat return.
RunnerStop ==
    /\ Running("events")
    /\ EndCall([call EXCEPT !.pc = "returned",
                            !.value = response_of(call.final_response)])
    /\ UNCHANGED <<files, environ, session_service, services_made, store, history,
                   student_data, tool_log, clicks, suspended, observed>>

(***************************************************************************)
(* Construction, clear_memory and the handlers of app.py.                  *)
(***************************************************************************)
\* Agent.__init__, lines 85-111, once _setup_vertex_auth has returned.
init_agent(current, made, name, id) ==
    LET svc == obtain_session_service(current, made) IN
    [service |-> svc,
     made |-> IF svc > made THEN svc ELSE made,
     agent |-> new_agent(name, id, svc)]

\* Agent(name=...): one Agent is constructed by a client of utils.py.
Construct(names) ==
    /\ AtRest
    /\ \E name \in names \ DOMAIN agents :
          LET auth == setup_vertex_auth(files, environ) IN
          /\ environ' = auth.env
          /\ IF auth.ok
             THEN \E id \in (1..MaxAddr) \ {agents[n].id : n \in DOMAIN agents} :
                     LET built == init_agent(session_service, services_made, name, id)
                     IN /\ session_service' = built.service
                        /\ services_made' = built.made
                        /\ agents' = agents @@ (name :> built.agent)
                        /\ call' = IdleCall
             ELSE /\ call' = [IdleCall EXCEPT
                                 !.pc = "raised", !.name = name, !.via = "api",
                                 !.exc = [type |-> auth.error, site |-> "construct"]]
                  /\ UNCHANGED <<session_service, services_made, agents>>
    /\ UNCHANGED <<files, store, history, student_data, chat_history, tool_log, clicks, suspended, observed>>

\* agent.chat(message), called by a client of utils.py.
ApiChat ==
    /\ AtRest
    /\ \E name \in DOMAIN agents, loop_ok \in BOOLEAN :
          call' = begin_chat(agents[name], "api", "", loop_ok)
    /\ UNCHANGED <<files, environ, session_service, services_made, store, history,
                   agents, student_data, chat_history, tool_log, clicks, suspended, observed>>

\* agent.clear_memory().
ClearMemory ==
    /\ AtRest
    /\ \E name \in DOMAIN agents :
          agents' = [agents EXCEPT ![name] = clear_memory(@)]
    /\ UNCHANGED <<files, environ, session_service, services_made, store, history,
                   student_data, chat_history, call, tool_log, clicks, suspended, observed>>

\* A chat is inside _run_agent.
InProgress(c) == c.pc \in {"ensure", "create", "handler_create", "run_async", "events"}

\* agent.chat(message), called by a thread while the chat another thread began
\* on an Agent of the process may be in progress.  get_agents (app.py lines
\* 126-128) caches the Agents per process, so the script runs of different
\* browser sessions call chat on the same objects; nothing in chat or
\* _ensure_session_async takes a lock.
ThreadChat ==
    /\ AtRest
    /\ \E name \in DOMAIN agents, loop_ok \in BOOLEAN :
          LET overlap == InProgress(suspended) /\ suspended.name = name IN
          /\ call' = begin_chat(agents[name], "api", "", loop_ok)
          /\ observed' = IF overlap
                          THEN see_overlap(observed, ensure_session(agents[name]))
                          ELSE observed
    /\ UNCHANGED <<files, environ, session_service, services_made, store, history,
                   agents, student_data, chat_history, tool_log, clicks, suspended>>

\* The interpreter switches threads between two steps of a chat.
Switch ==
    /\ InProgress(call) \/ InProgress(suspended)
    /\ call' = suspended
    /\ suspended' = call
    /\ UNCHANGED <<files, environ, session_service, services_made, store, history,
                   agents, student_data, chat_history, tool_log, clicks, observed>>

Prompts == {"hi"}

\* The chat input of one tab, lines 174-189 (213-226, 251-264): the user entry
\* is appended, get_agents() returns the cached agents or builds the three of
\* them, and chat begins.  An exception of get_agents is caught by the handler.
ChatHandler ==
    /\ AtRest
    /\ clicks < MaxClicks
    /\ clicks' = clicks + 1
    /\ \E tab \in Tabs, prompt \in Prompts, loop_ok \in BOOLEAN :
          /\ chat_history' =
                 [chat_history EXCEPT
                     ![tab] = Append(@, [role |-> "user", content |-> prompt])]
          /\ IF DOMAIN agents # {}
             THEN /\ call' = begin_chat(agents[TabAgent(tab)], "ui", tab, loop_ok)
                  /\ UNCHANGED <<environ, session_service, services_made, agents>>
             ELSE LET auth == setup_vertex_auth(files, environ) IN
                  /\ environ' = auth.env
                  /\ IF auth.ok
                     THEN \E p, r, c \in 1..MaxAddr :
                             /\ Cardinality({p, r, c}) = Cardinality(Names)
                             /\ LET b1 == init_agent(session_service, services_made,
                                                     "ProfileBot", p)
                                    b2 == init_agent(b1.service, b1.made, "ReviewerBot", r)
                                    b3 == init_agent(b2.service, b2.made, "CoachBot", c)
                                    built == ("ProfileBot" :> b1.agent)
                                             @@ ("ReviewerBot" :> b2.agent)
                                             @@ ("CoachBot" :> b3.agent)
                                IN /\ session_service' = b3.service
                                   /\ services_made' = b3.made
                                   /\ agents' = built
                                   /\ call' = begin_chat(built[TabAgent(tab)], "ui",
                                                         tab, loop_ok)
                     ELSE /\ call' = [IdleCall EXCEPT
                                         !.pc = "raised", !.name = TabAgent(tab),
                                         !.via = "ui", !.tab = tab,
                                         !.exc = [type |-> auth.error,
                                                  site |-> "construct"]]
                          /\ UNCHANGED <<session_service, services_made, agents>>
    /\ UNCHANGED <<files, store, history, student_data, tool_log, suspended, observed>>

\* The Clear Profile button, lines 198-201.
ClearProfile ==
    /\ AtRest
    /\ student_data' = EmptyProfile
    /\ chat_history' = [chat_history EXCEPT !["profile"] = <<>>]
    /\ tool_log' = <<>>
    /\ call' = [IdleCall EXCEPT !.pc = "cleared"]
    /\ UNCHANGED <<files, environ, session_service, services_made, store, history,
                   agents, clicks, suspended, observed>>

\* The Reset Everything button, lines 321-325.  st.cache_resource.clear() drops
\* the cached Agent objects; the class attribute Agent._session_service stays.
Reset ==
    /\ AtRest
    /\ student_data' = EmptyProfile
    /\ chat_history' = [tab \in Tabs |-> <<>>]
    /\ agents' = <<>>
    /\ tool_log' = <<>>
    /\ call' = [IdleCall EXCEPT !.pc = "reset"]
    /\ UNCHANGED <<files, environ, session_service, services_made, store, history,
                   clicks, suspended, observed>>

\* One of the save_* tools is called, lines 62-77.
ToolCall(calls) ==
    /\ AtRest
    /\ Len(tool_log) < MaxToolCalls
    /\ \E fc \in calls :
          /\ student_data' = run_tool(student_data, fc)
          /\ tool_log' = log_tool(tool_log, fc)
    /\ UNCHANGED <<files, environ, session_service, services_made, store, history,
                   agents, chat_history, call, clicks, suspended, observed>>

(***************************************************************************)
(* The inputs explored.                                                    *)
(***************************************************************************)
FileLists == UNION {[1..n -> FileKinds] : n \in 0..MaxFiles}

\* Directory listings of the app runs: one that works, one that does not.
AppFiles == {<<"sa_pid">>, <<"sa_no_pid", "sa_pid">>}

TextEvent(t) == Event(<<TextPart(t)>>)
CallEvent(tool, args) == Event(<<CallPart(tool, args, "")>>)

\* The function calls the model makes in the app runs, per tool.
AppCalls(tool) ==
    CASE tool = "save_branch" -> {CallEvent(tool, <<"cse">>)}
      [] tool = "save_skills" -> {CallEvent(tool, <<<<"a", ",", " ", "b">>>>)}
      [] tool = "save_project" -> {CallEvent(tool, <<"t", "d">>)}
      [] OTHER -> {CallEvent(tool, <<>>)}

\* The events of the app and adapter runs: a text, an event without content,
\* and calls of the agent's tools that change the profile.
AppEvents(name) ==
    {NoContent, TextEvent("x")}
    \cup (IF name \in Names
          THEN UNION {AppCalls(tool) :
                         tool \in AgentTools(name) \cap {"save_branch", "save_project"}}
          ELSE {})

\* The events of the event-stream runs: no content, or up to two parts, each
\* with or without a function call and with an empty or non-empty text.
StreamParts ==
    {TextPart(t) : t \in {"", "x", "y"}}
    \cup {CallPart("check_skill_demand", <<>>, t) : t \in {"", "x", "y"}}

StreamEvents ==
    {NoContent, Event(<<>>)}
    \cup {Event(<<p>>) : p \in StreamParts}
    \cup {Event(<<p, q>>) : p \in StreamParts, q \in StreamParts}

\* The save_* calls of the tool runs.
SkillStrings == {<<>>, <<"a">>, <<"a", ",", "b">>, <<" ", "a", " ", ",", "b", " ">>}

DirectCalls ==
    {[tool |-> "save_branch", args |-> <<b>>] : b \in {"cse", "ece"}}
    \cup {[tool |-> "save_skills", args |-> <<s>>] : s \in SkillStrings}
    \cup {[tool |-> "save_project", args |-> <<t, "d">>] : t \in {"t1", "t2"}}

(***************************************************************************)
(* Specifications.                                                         *)
(***************************************************************************)
InitWith(listings) ==
    /\ files \in listings
    /\ environ = {}
    /\ session_service = 0
    /\ services_made = 0
    /\ store = {}
    /\ history = {}
    /\ agents = <<>>
    /\ student_data = EmptyProfile
    /\ chat_history = [tab \in Tabs |-> <<>>]
    /\ call = IdleCall
    /\ tool_log = <<>>
    /\ clicks = 0
    /\ suspended = IdleCall
    /\ observed = NothingObserved

\* The Streamlit app.  Its session service is the in-memory one, whose calls
\* return; the runner, which calls the hosted model, may raise.
Init == InitWith(AppFiles)

Next ==
    \/ ChatHandler
    \/ EnsureSkip
    \/ GetSessionReturn
    \/ CreateReturn
    \/ RunAsync
    \/ RunnerYield(AppEvents(call.name), MaxTurnEvents, FALSE)
    \/ RunnerRaise(ExcTypes)
    \/ RunnerStop
    \/ ClearProfile
    \/ Reset

Spec == Init /\ [][Next]_vars

\* The app's agents, with clear_memory called on them between turns.
NextRegistry ==
    \/ ChatHandler
    \/ EnsureSkip
    \/ GetSessionReturn
    \/ CreateReturn
    \/ RunAsync
    \/ RunnerYield({TextEvent("x")}, MaxTurnEvents, FALSE)
    \/ RunnerRaise({"Exception"})
    \/ RunnerStop
    \/ ClearMemory
    \/ Reset

SpecRegistry == Init /\ [][NextRegistry]_vars

\* One Agent used through its Python interface.
InitAdapter == InitWith({<<"sa_pid">>})

NextAdapter ==
    \/ Construct({"ReviewerBot"})
    \/ ApiChat
    \/ ClearMemory
    \/ EnsureSkip
    \/ GetSessionReturn
    \/ GetSessionRaise(ExcTypes)
    \/ CreateReturn
    \/ CreateRaise(ExcTypes)
    \/ HandlerCreateReturn
    \/ HandlerCreateRaise(ExcTypes)
    \/ RunAsync
    \/ RunnerYield(AppEvents(call.name), MaxTurnEvents, FALSE)
    \/ RunnerRaise(ExcTypes)
    \/ RunnerStop

SpecAdapter == InitAdapter /\ [][NextAdapter]_vars

\* One Agent whose chat is called by two threads.
InitThreads == InitWith({<<"sa_pid">>})

NextThreads ==
    \/ Construct({"ReviewerBot"})
    \/ ThreadChat
    \/ Switch
    \/ EnsureSkip
    \/ GetSessionReturn
    \/ GetSessionRaise(ExcTypes)
    \/ CreateReturn
    \/ CreateRaise(ExcTypes)
    \/ HandlerCreateReturn
    \/ HandlerCreateRaise(ExcTypes)
    \/ RunAsync
    \/ RunnerYield({TextEvent("x")}, MaxTurnEvents, FALSE)
    \/ RunnerRaise(ExcTypes)
    \/ RunnerStop

SpecThreads == InitThreads /\ [][NextThreads]_vars

\* Construction against every directory listing.
InitAuth == InitWith(FileLists)

NextAuth == Construct(Names)

SpecAuth == InitAuth /\ [][NextAuth]_vars

\* One Agent reading the event streams of its turns.
InitStream == InitWith({<<"sa_pid">>})

NextStream ==
    \/ Construct({"ReviewerBot"})
    \/ ApiChat
    \/ EnsureSkip
    \/ GetSessionReturn
    \/ CreateReturn
    \/ RunAsync
    \/ RunnerYield(StreamEvents, MaxEvents, TRUE)
    \/ RunnerStop

SpecStream == InitStream /\ [][NextStream]_vars

\* The profile tools.
InitTools == InitWith({<<"sa_pid">>})

NextTools ==
    \/ ToolCall(DirectCalls)
    \/ ClearProfile

SpecTools == InitTools /\ [][NextTools]_vars

(***************************************************************************)
(* Properties.                                                             *)
(***************************************************************************)
Max(S) == CHOOSE x \in S : \A y \in S : y <= x

SessionSites == {"get_session", "create_session", "handler_create"}

\* C1: the first chat after a clear_memory addresses a session identifier that
\* no earlier chat of the same Agent addressed.
C1_FreshSessionAfterClear ==
    call.after_clear => \A key \in call.addressed : key[2] \notin call.prior

\* C2: a chat addresses one (user_id, session_id) pair, and when no
\* clear_memory came between it and the Agent's previous chat, it is the pair
\* the previous chat addressed, however that chat ended.
C2_SameSessionBetweenClears ==
    /\ Cardinality(call.addressed) <= 1
    /\ (~call.after_clear /\ call.prev # NoKey) => call.addressed \subseteq {call.prev}

\* A second chat, with no clear_memory since the first one, has looked its
\* session up and not found it: the first chat failed before creating it.
C2_Witness ==
    /\ call.pc = "create"
    /\ ~call.after_clear
    /\ call.prev # NoKey
    /\ call.addressed = {call.prev}

\* C3: within one chat, get_session, create_session and run_async are each
\* attempted at most once.
C3_AtMostOnce ==
    /\ call.n_get <= 1
    /\ call.n_create <= 1
    /\ call.n_submit <= 1

\* C4: when run_async or its event stream raised during a chat, that chat does
\* not return a value.
C4_RunnerErrorsPropagate ==
    (\E e \in call.failed : e.site = "run_async") => call.pc # "returned"

C6_ConstructionIffValidFile ==
    LET valid == \E i \in 1..Len(files) : files[i] = "sa_pid"
        failed == call.pc = "raised" /\ call.exc.site = "construct"
    IN /\ DOMAIN agents # {} => valid
       /\ failed => ~valid /\ call.exc.type = "ValueError" /\ environ = {}

TextBearing(part) == ~part.function_call /\ part.text # ""

IsTextEvent(event) ==
    event.content /\ \E i \in 1..Len(event.parts) : TextBearing(event.parts[i])

TextOf(event) ==
    event.parts[Max({i \in 1..Len(event.parts) : TextBearing(event.parts[i])})].text

\* C7: chat returns the text of the last text-bearing event of the stream it
\* read, and the placeholder when the stream has none.
C7_LastTextWins ==
    call.pc = "returned" =>
        LET texts == {i \in 1..Len(call.stream) : IsTextEvent(call.stream[i])} IN
        call.value = IF texts = {} THEN Placeholder
                     ELSE TextOf(call.stream[Max(texts)])

\* A chat returned from a stream with two text-bearing events of different
\* texts, the first of which also carries a function call.
C7_Witness ==
    /\ call.pc = "returned"
    /\ Len(call.stream) = MaxEvents
    /\ IsTextEvent(call.stream[1])
    /\ IsTextEvent(call.stream[Len(call.stream)])
    /\ TextOf(call.stream[1]) # TextOf(call.stream[Len(call.stream)])
    /\ \E i \in 1..Len(call.stream[1].parts) : call.stream[1].parts[i].function_call

\* The skills lists the strings of SkillStrings stand for.
ExpectedSkills(skills) ==
    CASE skills = <<>> -> << <<>> >>
      [] skills = <<"a">> -> << <<"a">> >>
      [] skills = <<"a", ",", "b">> -> << <<"a">>, <<"b">> >>
      [] skills = <<" ", "a", " ", ",", "b", " ">> -> << <<"a">>, <<"b">> >>

Calls(tool) == {i \in 1..Len(tool_log) : tool_log[i].tool = tool}

IsProject(fc) == fc.tool = "save_project"

\* C8: the branch is the argument of the last save_branch, the skills are the
\* list of the last save_skills alone, the projects are one entry per
\* save_project in call order; a field no tool has saved is absent.
C8_ProfileFollowsSaves ==
    LET branches == Calls("save_branch")
        skills == Calls("save_skills")
        projects == SelectSeq(tool_log, IsProject)
    IN /\ ("branch" \in student_data.keys) = (branches # {})
       /\ student_data.branch =
              IF branches = {} THEN "" ELSE tool_log[Max(branches)].args[1]
       /\ ("skills" \in student_data.keys) = (skills # {})
       /\ student_data.skills =
              IF skills = {} THEN <<>>
              ELSE ExpectedSkills(tool_log[Max(skills)].args[1])
       /\ ("projects" \in student_data.keys) = (projects # <<>>)
       /\ student_data.projects =
              [i \in 1..Len(projects) |->
                  [title |-> projects[i].args[1], desc |-> projects[i].args[2]]]

\* Skills were saved twice with different lists and two different projects added.
C8_Witness ==
    /\ Len(tool_log) = 4
    /\ tool_log[1].tool = "save_skills"
    /\ tool_log[2].tool = "save_project"
    /\ tool_log[3].tool = "save_skills"
    /\ tool_log[4].tool = "save_project"
    /\ ExpectedSkills(tool_log[1].args[1]) # ExpectedSkills(tool_log[3].args[1])
    /\ tool_log[2].args # tool_log[4].args

\* C9: every Agent's runner holds the one session service built first, which
\* is Agent._session_service; every session is in it; and sessions are keyed
\* by their agent's name, so agents of different names never share a key.
C9_OneRegistryNoCollision ==
    /\ services_made <= 1
    /\ \A n \in DOMAIN agents :
          /\ session_service = 1
          /\ agents[n].runner_service = 1
          /\ ensure_key(agents[n])[1][2] = n
          /\ ensure_key(agents[n])[2][2] = n
    /\ \A n, m \in DOMAIN agents :
          n # m => /\ ensure_key(agents[n]) # ensure_key(agents[m])
                   /\ run_key(agents[n]) # run_key(agents[m])
    /\ \A s \in store \cup history :
          /\ s.svc = 1
          /\ s.key[1][2] = s.key[2][2]

\* Agents rebuilt after a reset, one of them with its memory cleared, while
\* the service still holds a session of an earlier Agent of that name.
C9_Witness ==
    \E n \in DOMAIN agents :
       /\ agents[n].fresh
       /\ \E s \in store : s.key[1] = user_id(n) /\ s.key[2][3] # agents[n].id

\* C10: right after Reset Everything the profile and the transcripts are
\* empty, no Agent is cached and the session service holds no session.
C10_ResetClearsEverything ==
    call.pc = "reset" =>
        /\ student_data = EmptyProfile
        /\ \A tab \in Tabs : chat_history[tab] = <<>>
        /\ DOMAIN agents = {}
        /\ store = {}
        /\ history = {}

\* C11: when the chats on an Agent run one at a time and get_session does not
\* raise, create_session is called at most once per session.
C11_CreatedOncePerSession ==
    \A session \in DOMAIN observed.created :
       observed.created[session] >= 2 =>
           session \in observed.overlapped \cup observed.lookup_failed

\* C11, with the failure of create_session among the exceptions: a session
\* created twice had overlapping chats, or a get_session or a create_session
\* that raised.
C11_CreatedOnceUnlessFailed ==
    \A session \in DOMAIN observed.created :
       observed.created[session] >= 2 =>
           session \in observed.overlapped \cup observed.lookup_failed
                       \cup observed.create_failed

\* C11, the interleaving: two chats on one Agent have both found the session
\* unmarked and absent, and both have called create_session, which returned.
C11_BothPassedCheck ==
    /\ InProgress(call) /\ InProgress(suspended)
    /\ call.name = suspended.name
    /\ call.n_get = 1 /\ suspended.n_get = 1
    /\ call.n_create = 1 /\ suspended.n_create = 1
    /\ call.failed = {} /\ suspended.failed = {}
    /\ \E session \in DOMAIN observed.created :
          /\ session.key \in call.addressed \cap suspended.addressed
          /\ observed.created[session] = 2
          /\ session \notin observed.lookup_failed \cup observed.create_failed

\* C12: while a chat called by a handler of the app is in progress, no step
\* removes a key of the profile and no step but the return of chat changes a
\* transcript; the step at which chat raises changes neither the profile,
\* which keeps what the tools of the turn did to it, nor any transcript, and
\* leaves the user's entry of the turn as the last entry of the tab's transcript.
C12_FailedTurnNotRolledBack ==
    [][(call.via = "ui" /\ InProgress(call)) =>
          /\ student_data.keys \subseteq student_data'.keys
          /\ call'.pc # "returned" => chat_history' = chat_history
          /\ call'.pc = "raised" =>
                /\ student_data' = student_data
                /\ Len(chat_history'[call.tab]) > 0
                /\ chat_history'[call.tab][Len(chat_history'[call.tab])].role = "user"]_vars

\* The runner raised in the first turn of the profile tab since the profile
\* was last emptied, after a save_* tool of that turn had changed the profile.
C12_Witness ==
    /\ call.pc = "raised"
    /\ call.via = "ui"
    /\ call.tab = "profile"
    /\ call.exc.site = "run_async"
    /\ student_data # EmptyProfile
    /\ Len(chat_history["profile"]) = 1
    /\ chat_history["profile"][1].role = "user"

====
